---- MODULE Spec2Model ----
(***************************************************************************)
(* COBSParser: Consistent Overhead Byte Stuffing with a one-byte XOR       *)
(* checksum.  encodeMessage and decodeMessage are modelled loop iteration  *)
(* by loop iteration (EncodeStep, DecodeStep); the actions apply the whole *)
(* functions to inputs drawn from bounded sets.  Positions are the C++     *)
(* zero-based offsets; the TLA+ sequence index of offset k is k + 1.       *)
(***************************************************************************)
EXTENDS Integers, Sequences, FiniteSets, TLC

ASCII_NULL == 0

MAX_FRAME_SIZE == 1024

MAX_BLOCK_SIZE == 255

\* ------------------------------------------------------------------ bounds

\* Longest payload / raw decoder input enumerated exhaustively.
MaxPayloadLen == 2

MaxInputLen == 2

\* Long payloads have k * 254 - 1 or k * 254 filler bytes, k in 1..MaxBlocks.
MaxBlocks == 1

\* Bit flips are tried on the literal bytes within this distance of a frame's ends.
FlipWindow == 2

\* ------------------------------------------------------- fixed-width helpers

\* Bit k of a byte.
Bit(x, k) == (x \div (2 ^ k)) % 2

\* uint8_t ^ uint8_t
Xor8(a, b) ==
      ((Bit(a, 0) + Bit(b, 0)) % 2)
    + ((Bit(a, 1) + Bit(b, 1)) % 2) * 2
    + ((Bit(a, 2) + Bit(b, 2)) % 2) * 4
    + ((Bit(a, 3) + Bit(b, 3)) % 2) * 8
    + ((Bit(a, 4) + Bit(b, 4)) % 2) * 16
    + ((Bit(a, 5) + Bit(b, 5)) % 2) * 32
    + ((Bit(a, 6) + Bit(b, 6)) % 2) * 64
    + ((Bit(a, 7) + Bit(b, 7)) % 2) * 128

\* uint8_t arithmetic wraps modulo 2^8
Inc8(x) == (x + 1) % 256

Dec8(x) == (x + 255) % 256

\* ------------------------------------------------------------ calculateCRC

\* One iteration of the for loop.
CRCStep(data, st) ==
    [i |-> st.i + 1, crc |-> Xor8(st.crc, data[st.i + 1])]

\* The next n iterations of the for loop, run in order while i < len.  (n is
\* halved rather than counted down only to keep the evaluation shallow; the
\* iterations run are the same.)
RECURSIVE CRCLoop(_, _, _)
CRCLoop(data, st, n) ==
    IF n = 0 \/ ~(st.i < Len(data)) THEN st
    ELSE IF n = 1 THEN CRCStep(data, st)
    ELSE CRCLoop(data, CRCLoop(data, st, n \div 2), n - n \div 2)

\* for (i = 0; i < len; i++) crc ^= data[i];
calculateCRC(data) == CRCLoop(data, [i |-> 0, crc |-> 0], Len(data)).crc

\* ----------------------------------------------------------- encodeMessage

\* A store through a pointer into the output vector; a store outside the
\* vector is recorded in oob (the buffer itself is then left as it is).
Store(st, at, byte) ==
    IF at < Len(st.output)
    THEN [st EXCEPT !.output = [@ EXCEPT ![at + 1] = byte]]
    ELSE [st EXCEPT !.oob = TRUE]

\* Mutant: the byte is copied even when it is ASCII_NULL.
EncodeStepUnstuffed(input, crc, st) ==
    LET byte == IF st.i < Len(input) THEN input[st.i + 1] ELSE crc
        s1   == [Store(st, st.encodedMessage, byte) EXCEPT
                    !.encodedMessage = @ + 1,
                    !.overheadCount = Inc8(@)]
        s2   == IF s1.overheadCount = MAX_BLOCK_SIZE
                THEN [Store(s1, s1.overheadByte, s1.overheadCount) EXCEPT
                         !.overheadCount = 1,
                         !.overheadByte = s1.encodedMessage,
                         !.encodedMessage = s1.encodedMessage + 1]
                ELSE s1
    IN  [s2 EXCEPT !.i = @ + 1]

\* Mutant: a block is closed only by an ASCII_NULL, never for being full.
EncodeStepNoFullClose(input, crc, st) ==
    LET byte == IF st.i < Len(input) THEN input[st.i + 1] ELSE crc
        s1   == IF byte # ASCII_NULL
                THEN [Store(st, st.encodedMessage, byte) EXCEPT
                         !.encodedMessage = @ + 1,
                         !.overheadCount = Inc8(@)]
                ELSE st
        s2   == IF byte = ASCII_NULL
                THEN [Store(s1, s1.overheadByte, s1.overheadCount) EXCEPT
                         !.overheadCount = 1,
                         !.overheadByte = s1.encodedMessage,
                         !.encodedMessage = s1.encodedMessage + 1]
                ELSE s1
    IN  [s2 EXCEPT !.i = @ + 1]

\* Mutant: a block is closed as full one byte early, at 253 literal bytes.
EncodeStepCloseEarly(input, crc, st) ==
    LET byte == IF st.i < Len(input) THEN input[st.i + 1] ELSE crc
        s1   == IF byte # ASCII_NULL
                THEN [Store(st, st.encodedMessage, byte) EXCEPT
                         !.encodedMessage = @ + 1,
                         !.overheadCount = Inc8(@)]
                ELSE st
        s2   == IF byte = ASCII_NULL \/ s1.overheadCount = MAX_BLOCK_SIZE - 1
                THEN [Store(s1, s1.overheadByte, s1.overheadCount) EXCEPT
                         !.overheadCount = 1,
                         !.overheadByte = s1.encodedMessage,
                         !.encodedMessage = s1.encodedMessage + 1]
                ELSE s1
    IN  [s2 EXCEPT !.i = @ + 1]

\* One iteration of the for loop over the message bytes.
EncodeStep(input, crc, st) ==
    LET byte == IF st.i < Len(input) THEN input[st.i + 1] ELSE crc
        s1   == IF byte # ASCII_NULL
                THEN [Store(st, st.encodedMessage, byte) EXCEPT
                         !.encodedMessage = @ + 1,
                         !.overheadCount = Inc8(@)]
                ELSE st
        s2   == IF byte = ASCII_NULL \/ s1.overheadCount = MAX_BLOCK_SIZE
                THEN [Store(s1, s1.overheadByte, s1.overheadCount) EXCEPT
                         !.overheadCount = 1,
                         !.overheadByte = s1.encodedMessage,
                         !.encodedMessage = s1.encodedMessage + 1]
                ELSE s1
    IN  [s2 EXCEPT !.i = @ + 1]

\* The next n iterations of the for loop, run in order while i < messageSize.
RECURSIVE EncodeLoop(_, _, _, _, _)
EncodeLoop(input, crc, messageSize, st, n) ==
    IF n = 0 \/ ~(st.i < messageSize) THEN st
    ELSE IF n = 1 THEN EncodeStep(input, crc, st)
    ELSE EncodeLoop(input, crc, messageSize,
                    EncodeLoop(input, crc, messageSize, st, n \div 2), n - n \div 2)

\* Mutant: the vector is never shrunk.
ResizeNoShrink(vec, n) ==
    IF n <= Len(vec) THEN vec
    ELSE vec \o [k \in 1..(n - Len(vec)) |-> 0]

\* std::vector::resize: shrink, or grow with value-initialised bytes.
Resize(vec, n) ==
    IF n <= Len(vec) THEN SubSeq(vec, 1, n)
    ELSE vec \o [k \in 1..(n - Len(vec)) |-> 0]

\* std::vector::clear: the vector keeps no element.
Clear(vec) == SubSeq(vec, 1, 0)

\* Mutant: the vector is resized without the byte for the ASCII_NULL.
EncodeInitTight(output, expectedLen) ==
    [output         |-> Resize(Clear(output), expectedLen - 1),
     encodedMessage |-> 1,
     overheadByte   |-> 0,
     overheadCount  |-> 1,
     i              |-> 0,
     oob            |-> FALSE]

\* Encoder state on entry to the loop: the caller's vector cleared and
\* resized, the two pointers into it and the count of the first block.
EncodeInit(output, expectedLen) ==
    [output         |-> Resize(Clear(output), expectedLen),
     encodedMessage |-> 1,
     overheadByte   |-> 0,
     overheadCount  |-> 1,
     i              |-> 0,
     oob            |-> FALSE]

\* encodeMessage once crc holds calculateCRC(input, inputSize); output is the
\* caller's vector as it is passed in.  The uint32_t
\* and size_t lengths stay far below 2^32 for the payloads the caller may
\* pass (at most MAX_FRAME_SIZE - 1 bytes), so they are plain integers here.
EncodeWithCRC(input, crc, output) ==
    LET messageSize        == Len(input) + 1
        blockOverheadBytes == messageSize \div 254
        expectedLen        == messageSize + blockOverheadBytes + 2
        looped             == EncodeLoop(input, crc, messageSize,
                                         EncodeInit(output, expectedLen), messageSize)
        closed             == Store(looped, looped.overheadByte, looped.overheadCount)
        ended              == Store(closed, closed.encodedMessage, ASCII_NULL)
        actualLen          == closed.encodedMessage + 1
    IN  [output      |-> Resize(ended.output, actualLen),
         ret         |-> actualLen,
         expectedLen |-> expectedLen,
         oob         |-> ended.oob]

encodeMessage(input, output) == EncodeWithCRC(input, calculateCRC(input), output)

\* The loop variables of encodeMessage as an iteration leaves them.
EncodeObserve(st) ==
    [i              |-> st.i,
     encodedMessage |-> st.encodedMessage,
     overheadByte   |-> st.overheadByte,
     overheadCount  |-> st.overheadCount]

\* The next n iterations of the for loop, as EncodeLoop runs them, with what
\* each of them leaves appended to seen.
RECURSIVE EncodeRun(_, _, _, _, _)
EncodeRun(input, crc, messageSize, run, n) ==
    IF n = 0 \/ ~(run.st.i < messageSize) THEN run
    ELSE IF n = 1
         THEN LET s == EncodeStep(input, crc, run.st)
              IN  [st |-> s, seen |-> Append(run.seen, EncodeObserve(s))]
    ELSE EncodeRun(input, crc, messageSize,
                   EncodeRun(input, crc, messageSize, run, n \div 2), n - n \div 2)

\* The loop variables of encodeMessage on entry to the loop (first element)
\* and after each iteration: element j + 1 is what iteration i = j - 1 leaves.
EncodeTrace(input, output) ==
    LET messageSize        == Len(input) + 1
        blockOverheadBytes == messageSize \div 254
        expectedLen        == messageSize + blockOverheadBytes + 2
        entry              == EncodeInit(output, expectedLen)
    IN  EncodeRun(input, calculateCRC(input), messageSize,
                  [st |-> entry, seen |-> <<EncodeObserve(entry)>>], messageSize).seen

\* ----------------------------------------------------------- decodeMessage

\* Mutant: the ASCII_NULL is re-inserted after every block, full or not.
DecodeStepAlwaysInsert(input, st) ==
    IF st.blockSize > 0
    THEN [st EXCEPT !.output = Append(@, input[st.encodedMessage + 1]),
                    !.encodedMessage = @ + 1,
                    !.blockSize = Dec8(@)]
    ELSE LET blockSize == input[st.encodedMessage + 1]
         IN  IF blockSize = ASCII_NULL
             THEN [st EXCEPT !.encodedMessage = @ + 1,
                             !.blockSize = blockSize,
                             !.endOfFrame = TRUE]
             ELSE [st EXCEPT !.encodedMessage = @ + 1,
                             !.output = IF st.encodedMessage > 0
                                        THEN Append(@, ASCII_NULL) ELSE @,
                             !.overheadCount = blockSize,
                             !.blockSize = Dec8(blockSize)]

\* Mutant: an ASCII_NULL inside a block also ends the frame.
DecodeStepStopAtNull(input, st) ==
    IF st.blockSize > 0 /\ input[st.encodedMessage + 1] # ASCII_NULL
    THEN [st EXCEPT !.output = Append(@, input[st.encodedMessage + 1]),
                    !.encodedMessage = @ + 1,
                    !.blockSize = Dec8(@)]
    ELSE LET blockSize == input[st.encodedMessage + 1]
         IN  IF blockSize = ASCII_NULL
             THEN [st EXCEPT !.encodedMessage = @ + 1,
                             !.blockSize = blockSize,
                             !.endOfFrame = TRUE]
             ELSE [st EXCEPT !.encodedMessage = @ + 1,
                             !.output = IF st.overheadCount # MAX_BLOCK_SIZE
                                        THEN Append(@, ASCII_NULL) ELSE @,
                             !.overheadCount = blockSize,
                             !.blockSize = Dec8(blockSize)]

\* Mutant: a non-zero overhead byte is read without being consumed.
DecodeStepPeekOverhead(input, st) ==
    IF st.blockSize > 0
    THEN [st EXCEPT !.output = Append(@, input[st.encodedMessage + 1]),
                    !.encodedMessage = @ + 1,
                    !.blockSize = Dec8(@)]
    ELSE LET blockSize == input[st.encodedMessage + 1]
         IN  IF blockSize = ASCII_NULL
             THEN [st EXCEPT !.encodedMessage = @ + 1,
                             !.blockSize = blockSize,
                             !.endOfFrame = TRUE]
             ELSE [st EXCEPT !.output = IF st.overheadCount # MAX_BLOCK_SIZE
                                        THEN Append(@, ASCII_NULL) ELSE @,
                             !.overheadCount = blockSize,
                             !.blockSize = Dec8(blockSize)]

\* Mutant: the loop's --blockSize is also applied when the iteration breaks.
DecodeStepDecrementOnBreak(input, st) ==
    IF st.blockSize > 0
    THEN [st EXCEPT !.output = Append(@, input[st.encodedMessage + 1]),
                    !.encodedMessage = @ + 1,
                    !.blockSize = Dec8(@)]
    ELSE LET blockSize == input[st.encodedMessage + 1]
         IN  IF blockSize = ASCII_NULL
             THEN [st EXCEPT !.encodedMessage = @ + 1,
                             !.blockSize = Dec8(blockSize),
                             !.endOfFrame = TRUE]
             ELSE [st EXCEPT !.encodedMessage = @ + 1,
                             !.output = IF st.overheadCount # MAX_BLOCK_SIZE
                                        THEN Append(@, ASCII_NULL) ELSE @,
                             !.overheadCount = blockSize,
                             !.blockSize = Dec8(blockSize)]

\* One iteration of the for loop, with the loop's --blockSize when the
\* iteration does not break.
DecodeStep(input, st) ==
    IF st.blockSize > 0
    THEN [st EXCEPT !.output = Append(@, input[st.encodedMessage + 1]),
                    !.encodedMessage = @ + 1,
                    !.blockSize = Dec8(@)]
    ELSE LET blockSize == input[st.encodedMessage + 1]
         IN  IF blockSize = ASCII_NULL
             THEN [st EXCEPT !.encodedMessage = @ + 1,
                             !.blockSize = blockSize,
                             !.endOfFrame = TRUE]
             ELSE [st EXCEPT !.encodedMessage = @ + 1,
                             !.output = IF st.overheadCount # MAX_BLOCK_SIZE
                                        THEN Append(@, ASCII_NULL) ELSE @,
                             !.overheadCount = blockSize,
                             !.blockSize = Dec8(blockSize)]

\* Mutant: the loop is entered as if a block below 255 had been read.
DecodeInitAfterPartial ==
    [output         |-> << >>,
     encodedMessage |-> 0,
     overheadCount  |-> 1,
     blockSize      |-> 0,
     endOfFrame     |-> FALSE]

\* Decoder state on entry to the loop.
DecodeInit ==
    [output         |-> << >>,
     encodedMessage |-> 0,
     overheadCount  |-> MAX_BLOCK_SIZE,
     blockSize      |-> 0,
     endOfFrame     |-> FALSE]

\* Mutant: the loop goes on after the ASCII_NULL that ends the frame.
RECURSIVE DecodeLoopPastEnd(_, _, _)
DecodeLoopPastEnd(input, st, n) ==
    IF n = 0 \/ ~(st.encodedMessage < Len(input)) THEN st
    ELSE IF n = 1 THEN DecodeStep(input, st)
    ELSE DecodeLoopPastEnd(input, DecodeLoopPastEnd(input, st, n \div 2), n - n \div 2)

\* The next n iterations of the for loop, run in order while
\* encodedMessage < encodedMessageEnd and no break was taken.
RECURSIVE DecodeLoop(_, _, _)
DecodeLoop(input, st, n) ==
    IF n = 0 \/ ~(st.encodedMessage < Len(input)) \/ st.endOfFrame THEN st
    ELSE IF n = 1 THEN DecodeStep(input, st)
    ELSE DecodeLoop(input, DecodeLoop(input, st, n \div 2), n - n \div 2)

\* The scan of decodeMessage: the unstuffed output and how the loop ended.
\* Every iteration consumes one input byte, so Len(input) iterations always
\* reach the end of the loop.
DecodeScan(input) == DecodeLoop(input, DecodeInit, Len(input))

\* The loop variables of decodeMessage as an iteration leaves them, with the
\* size of the output vector and its last byte (back holds no byte while the
\* vector is empty).
DecodeObserve(st) ==
    [encodedMessage |-> st.encodedMessage,
     overheadCount  |-> st.overheadCount,
     blockSize      |-> st.blockSize,
     endOfFrame     |-> st.endOfFrame,
     size           |-> Len(st.output),
     back           |-> IF st.output = << >> THEN << >>
                        ELSE <<st.output[Len(st.output)]>>]

\* The next n iterations of the for loop, as DecodeLoop runs them, with what
\* each of them leaves appended to seen.
RECURSIVE DecodeRun(_, _, _)
DecodeRun(input, run, n) ==
    IF n = 0 \/ ~(run.st.encodedMessage < Len(input)) \/ run.st.endOfFrame THEN run
    ELSE IF n = 1
         THEN LET s == DecodeStep(input, run.st)
              IN  [st |-> s, seen |-> Append(run.seen, DecodeObserve(s))]
    ELSE DecodeRun(input, DecodeRun(input, run, n \div 2), n - n \div 2)

\* The loop variables of decodeMessage on entry to the loop (first element)
\* and after each iteration it runs.
DecodeTrace(input) ==
    DecodeRun(input, [st |-> DecodeInit, seen |-> <<DecodeObserve(DecodeInit)>>],
              Len(input)).seen

\* Mutant: the CRC comparison is skipped.
CheckCRCSkipped(output) ==
    IF output = << >> THEN [valid |-> FALSE, popped |-> << >>]
    ELSE [valid |-> TRUE, popped |-> SubSeq(output, 1, Len(output) - 1)]

\* Mutant: an empty output passes as an empty message with CRC 0.
CheckCRCAcceptEmpty(output) ==
    IF output = << >> THEN [valid |-> TRUE, popped |-> << >>]
    ELSE LET receivedCRC   == output[Len(output)]
             popped        == SubSeq(output, 1, Len(output) - 1)
             calculatedCRC == calculateCRC(popped)
         IN  [valid |-> calculatedCRC = receivedCRC, popped |-> popped]

\* Mutant: an output that holds only the CRC byte is rejected as well.
CheckCRCNeedsPayload(output) ==
    IF Len(output) <= 1 THEN [valid |-> FALSE, popped |-> << >>]
    ELSE LET receivedCRC   == output[Len(output)]
             popped        == SubSeq(output, 1, Len(output) - 1)
             calculatedCRC == calculateCRC(popped)
         IN  [valid |-> calculatedCRC = receivedCRC, popped |-> popped]

\* The emptiness check, output.back(), output.pop_back() and the comparison
\* of the two CRCs; popped is the local vector after pop_back().
CheckCRC(output) ==
    IF output = << >> THEN [valid |-> FALSE, popped |-> << >>]
    ELSE LET receivedCRC   == output[Len(output)]
             popped        == SubSeq(output, 1, Len(output) - 1)
             calculatedCRC == calculateCRC(popped)
         IN  [valid |-> calculatedCRC = receivedCRC, popped |-> popped]

\* Mutant: the decoded bytes reach the store whether or not they validate.
CommitUnvalidated(check, message) ==
    [ret |-> check.valid, m_message |-> check.popped]

\* Mutant: the validated bytes are appended to the stored message.
CommitAppend(check, message) ==
    IF check.valid
    THEN [ret |-> TRUE, m_message |-> message \o check.popped]
    ELSE [ret |-> FALSE, m_message |-> message]

\* The final if/else: m_message = std::move(output) and true, or false.
Commit(check, message) ==
    IF check.valid
    THEN [ret |-> TRUE, m_message |-> check.popped]
    ELSE [ret |-> FALSE, m_message |-> message]

\* decodeMessage on a parser whose store holds message.
decodeMessage(input, message) ==
    Commit(CheckCRC(DecodeScan(input).output), message)

\* ------------------------------------------------------------------ inputs

Seqs(S, n) == UNION {[1..k -> S] : k \in 0..n}

Fill(byte, n) == [k \in 1..n |-> byte]

PayloadBytes == {0, 1, 2}

RawBytes == {0, 1, 2, 255}

Edge == {<< >>, <<0>>}

LongLens == UNION {{k * 254 - 1, k * 254} : k \in 1..MaxBlocks}

LongPayloads == {pre \o Fill(1, n) \o suf : pre \in Edge, suf \in Edge, n \in LongLens}

\* The longest payload the caller may pass: MAX_FRAME_SIZE - 1 bytes.
MaxPayload == Fill(1, MAX_FRAME_SIZE - 1)

Payloads == Seqs(PayloadBytes, MaxPayloadLen) \cup LongPayloads \cup {MaxPayload}

\* The offsets (as sequence indices) of the overhead bytes of a frame.
RECURSIVE OverheadPositions(_, _)
OverheadPositions(fr, at) ==
    IF at > Len(fr) \/ fr[at] = 0 THEN {}
    ELSE {at} \cup OverheadPositions(fr, at + fr[at])

\* The literal bytes of a frame: neither overhead bytes nor the final sentinel.
LiteralPositions(fr) ==
    (1..(Len(fr) - 1)) \ OverheadPositions(fr, 1)

FlipBit(byte, k) == Xor8(byte, 2 ^ k)

\* The frames that differ from frame in one bit of one literal byte.
Flipped(fr) ==
    {[fr EXCEPT ![at] = FlipBit(fr[at], k)] :
        at \in {a \in LiteralPositions(fr) :
                    a <= FlipWindow + 1 \/ a + FlipWindow >= Len(fr)},
        k \in 0..7}

\* Vectors a caller may pass to encodeMessage as output, and what line 28
\* leaves of them.
CallerVectors == {<< >>, <<1, 1, 0>>, <<7, 0, 7, 7>>}

ClearedVectors == {Clear(vec) : vec \in CallerVectors}

\* encodeMessage, the corrupted frames and the store-independent part of
\* decodeMessage, tabulated over the inputs above (@@ makes each table an
\* explicit function, evaluated once).  encodeMessage is tabulated by what
\* line 28 leaves of the caller's vector, and then by the payload.
EncodedOnto ==
    [vec \in ClearedVectors |-> [p \in Payloads |-> encodeMessage(p, vec)] @@ << >>] @@ << >>

\* encodeMessage called with an empty vector.
Encoded == EncodedOnto[<< >>]

EncodeTraces == [p \in Payloads |-> EncodeTrace(p, << >>)] @@ << >>

Corrupted == [p \in Payloads |-> Flipped(Encoded[p].output)] @@ << >>

\* The frames encodeMessage makes of the payloads.
Frames == {Encoded[p].output : p \in Payloads}

\* The frames cut off before their terminating sentinel.
Truncated == {SubSeq(fr, 1, Len(fr) - 1) : fr \in Frames}

\* Inputs with 0x00 bytes inside a block and a 0x00 overhead byte, with and
\* without a byte after it.
Embedded == {<<2, 0, 1, 0>>, <<2, 0, 1, 0, 2>>, <<3, 0, 0, 0>>, <<3, 0, 0, 0, 1>>}

RawInputs == Seqs(RawBytes, MaxInputLen) \cup Truncated \cup Embedded

\* Bytes that follow a frame in the input: a stray byte, a 0x00 and a byte,
\* the frame of the empty payload.
Tails == {<<2>>, <<0, 1>>, <<1, 1, 0>>}

DecoderInputs ==
    RawInputs \cup UNION {Corrupted[p] : p \in Payloads}
              \cup {fr \o tail : fr \in Frames, tail \in Tails \cup {<< >>}}

Scanned == [in \in DecoderInputs |-> DecodeScan(in)] @@ << >>

Checked == [in \in DecoderInputs |-> CheckCRC(Scanned[in].output)] @@ << >>

DecodeTraces == [in \in DecoderInputs |-> DecodeTrace(in)] @@ << >>

\* ------------------------------------------------------------------- state

VARIABLES
    m_message,   \* COBSParser::m_message, the validated-message store
    payload,     \* the input of the last encodeMessage call
    frame,       \* the caller's output vector, filled by that call
    encRet,      \* the value that call returned
    presized,    \* the size that call gave the vector before its loop
    overrun,     \* whether that call stored outside the vector
    received,    \* the input of the last decodeMessage call
    unstuffed,   \* decodeMessage's local output vector after its scan
    frameEnded,  \* whether that scan ended at an ASCII_NULL overhead byte
    decRet,      \* the value the last decodeMessage call returned
    lastOp       \* the last call made: "none", "encode" or "decode"

vars == <<m_message, payload, frame, encRet, presized, overrun, received, unstuffed, frameEnded, decRet, lastOp>>

Init ==
    /\ m_message = << >>
    /\ payload = << >>
    /\ frame = << >>
    /\ encRet = 0
    /\ presized = 0
    /\ overrun = FALSE
    /\ received = << >>
    /\ unstuffed = << >>
    /\ frameEnded = FALSE
    /\ decRet = FALSE
    /\ lastOp = "none"

\* encodeMessage(p, Len(p), output), read from the table by what line 28
\* leaves of output.
EncodeCall(p, output) == EncodedOnto[Clear(output)][p]

\* Mutant: the encoder keeps its input in the validated-message store.
EncodeKeepsInput(p) ==
    LET r == EncodeCall(p, frame)
    IN  /\ payload' = p
        /\ frame' = r.output
        /\ encRet' = r.ret
        /\ presized' = r.expectedLen
        /\ overrun' = r.oob
        /\ received' = << >>
        /\ unstuffed' = << >>
        /\ frameEnded' = FALSE
        /\ decRet' = FALSE
        /\ lastOp' = "encode"
        /\ m_message' = p

\* parser.encodeMessage(p, Len(p), frame)
Encode(p) ==
    LET r == EncodeCall(p, frame)
    IN  /\ payload' = p
        /\ frame' = r.output
        /\ encRet' = r.ret
        /\ presized' = r.expectedLen
        /\ overrun' = r.oob
        /\ received' = << >>
        /\ unstuffed' = << >>
        /\ frameEnded' = FALSE
        /\ decRet' = FALSE
        /\ lastOp' = "encode"
        /\ UNCHANGED m_message

\* parser.decodeMessage(in)
Decode(in) ==
    LET scan == Scanned[in]
        v    == Commit(Checked[in], m_message)
    IN  /\ received' = in
        /\ unstuffed' = scan.output
        /\ frameEnded' = scan.endOfFrame
        /\ decRet' = v.ret
        /\ m_message' = v.m_message
        /\ lastOp' = "decode"

EncodePayload == \E p \in Payloads : Encode(p)

\* The frame just encoded is decoded as it is.
DecodeFrame ==
    /\ frame # << >>
    /\ Decode(frame)
    /\ UNCHANGED <<payload, frame, encRet, presized, overrun>>

\* The frame just encoded is decoded with one bit of a literal byte flipped.
DecodeCorrupted ==
    /\ frame # << >>
    /\ \E in \in Corrupted[payload] : Decode(in)
    /\ UNCHANGED <<payload, frame, encRet, presized, overrun>>

\* The frame just encoded is decoded with more bytes after it.
DecodeFollowed ==
    /\ frame # << >>
    /\ \E tail \in Tails : Decode(frame \o tail)
    /\ UNCHANGED <<payload, frame, encRet, presized, overrun>>

\* Bytes that come from no encodeMessage call are decoded; the caller's
\* frame is dropped.
DecodeRaw ==
    /\ \E in \in RawInputs : Decode(in)
    /\ payload' = << >>
    /\ frame' = << >>
    /\ encRet' = 0
    /\ presized' = 0
    /\ overrun' = FALSE

Next == EncodePayload \/ DecodeFrame \/ DecodeCorrupted \/ DecodeFollowed \/ DecodeRaw

Spec == Init /\ [][Next]_vars

\* ------------------------------------------------------------ properties

Front(s) == SubSeq(s, 1, Len(s) - 1)

\* The XOR of the bytes of s, bit by bit: bit k is set iff an odd number of
\* the bytes have bit k set.
XorOf(s) ==
    LET Odd(k) == Cardinality({j \in 1..Len(s) : Bit(s[j], k) = 1}) % 2
    IN  Odd(0) + 2 * Odd(1) + 4 * Odd(2) + 8 * Odd(3)
        + 16 * Odd(4) + 32 * Odd(5) + 64 * Odd(6) + 128 * Odd(7)

\* A byte sequence passes the parser's two checks: it is not empty and its
\* last byte is the XOR of the bytes before it.
PassesChecks(s) == s # << >> /\ s[Len(s)] = XorOf(Front(s))

\* The unstuffed content of a byte sequence, block by block: every block gives
\* its literal bytes (as many as the input still holds), a block that follows
\* one with an overhead byte below 255 is preceded by a 0x00, and the first
\* 0x00 in overhead position ends the content.  prev is 0 before the first block.
RECURSIVE BlockwiseFrom(_, _, _)
BlockwiseFrom(in, at, prev) ==
    IF at > Len(in) \/ in[at] = 0 THEN << >>
    ELSE LET last == IF at + in[at] - 1 <= Len(in) THEN at + in[at] - 1 ELSE Len(in)
         IN  (IF prev # 0 /\ prev # 255 THEN <<0>> ELSE << >>)
                 \o SubSeq(in, at + 1, last)
                 \o BlockwiseFrom(in, at + in[at], in[at])

Blockwise(in) == BlockwiseFrom(in, 1, 0)

\* The frame length the claimed length formula gives for a payload.
FormulaLen(p) == Len(p) + 1 + ((Len(p) + 1) \div 254) + 1

\* The same with the logical message's length, len(p) + 1, as the first term
\* and 2 for the first overhead byte and the sentinel.
PresizedLen(p) == (Len(p) + 1) + ((Len(p) + 1) \div 254) + 2

\* The logical message (payload followed by its checksum) holds no 0x00.
NoNullInMessage(p) == (\A j \in 1..Len(p) : p[j] # 0) /\ XorOf(p) # 0

\* The last call decoded the frame of the last encodeMessage call unchanged.
RoundTripped == lastOp = "decode" /\ frame # << >> /\ received = frame

\* C1: round trip.  Decoding the frame encodeMessage made of a payload of at
\* most MAX_FRAME_SIZE - 1 bytes returns true and leaves exactly that payload
\* in the store, whatever the store held before.
C1_RoundTrip ==
    (RoundTripped /\ Len(payload) <= MAX_FRAME_SIZE - 1)
        => (decRet = TRUE /\ m_message = payload)

\* A round trip of a payload that fills a block and holds a 0x00 byte.
C1_Witness ==
    /\ RoundTripped
    /\ Len(payload) >= 254
    /\ \E j \in 1..Len(payload) : payload[j] = 0
    /\ decRet = TRUE
    /\ m_message = payload

\* C2: the sentinel 0x00 appears exactly once in an encoded frame, as its
\* last byte; every other byte of the frame is non-zero.
C2_SentinelOnlyLast ==
    frame # << >>
        => /\ frame[Len(frame)] = 0
           /\ \A j \in 1..(Len(frame) - 1) : frame[j] # 0

\* The frame of a long payload that holds 0x00 bytes.
C2_Witness ==
    /\ lastOp = "encode"
    /\ Len(payload) >= 254
    /\ \E j \in 1..Len(payload) : payload[j] = 0
    /\ frame[Len(frame)] = 0

\* C3: a decodeMessage call that returns false leaves the store as it was
\* before the call, after any sequence of earlier calls.
C3_FailureKeepsStore ==
    [][(lastOp' = "decode" /\ decRet' = FALSE) => m_message' = m_message]_vars

\* A checksum failure on a parser whose store holds a message.
C3_Witness ==
    /\ lastOp = "decode"
    /\ decRet = FALSE
    /\ unstuffed # << >>
    /\ m_message # << >>

\* C4: a decodeMessage call that returns true replaces the store as a whole
\* by the unstuffed output without its last byte, and no other call changes
\* the store.
C4_ReplaceOnSuccess ==
    [][IF lastOp' = "decode" /\ decRet' = TRUE
       THEN m_message' = Front(unstuffed')
       ELSE m_message' = m_message]_vars

\* A successful decode of received bytes that leaves a non-empty message.
C4_Witness ==
    /\ lastOp = "decode"
    /\ decRet = TRUE
    /\ frame = << >>
    /\ m_message # << >>
    /\ m_message = Front(unstuffed)

\* C5 as claimed: the frame, and the length returned, is exactly
\* len(p) + 1 + floor((len(p) + 1) / 254) + 1 bytes for every payload.
C5_LengthFormula ==
    frame # << >>
        => (Len(frame) = FormulaLen(payload) /\ encRet = FormulaLen(payload))

\* C5 as amended: the length returned is the frame's length; it is at most
\* (len(p) + 1) + floor((len(p) + 1) / 254) + 2, and exactly that when the
\* logical message is shorter than 254 bytes or holds no 0x00 byte.
C5_LengthBound ==
    frame # << >>
        => /\ encRet = Len(frame)
           /\ Len(frame) <= PresizedLen(payload)
           /\ (Len(payload) + 1 < 254 \/ NoNullInMessage(payload))
                  => Len(frame) = PresizedLen(payload)

\* A frame with a full block whose length is exactly the bound.
C5_Witness ==
    /\ lastOp = "encode"
    /\ Len(payload) + 1 >= 254
    /\ NoNullInMessage(payload)
    /\ encRet = PresizedLen(payload)

\* C6 as claimed: an input whose scan ends because the input is exhausted
\* makes decodeMessage return false.
C6_NoSentinelFails ==
    (lastOp = "decode" /\ ~frameEnded) => decRet = FALSE

\* C6 as amended: such an input is put to the same two checks as any other:
\* decodeMessage returns false when the accumulated output is empty or fails
\* the checksum, and otherwise returns true and stores the output without its
\* last byte.
C6_NoSentinelChecked ==
    (lastOp = "decode" /\ ~frameEnded)
        => /\ decRet = PassesChecks(unstuffed)
           /\ decRet = TRUE => m_message = Front(unstuffed)
           /\ received # << >> => Len(unstuffed) < Len(received)

\* An input without a sentinel that is accepted and fills the store.
C6_Witness ==
    /\ lastOp = "decode"
    /\ ~frameEnded
    /\ received # << >>
    /\ decRet = TRUE
    /\ m_message # << >>

\* C7: a frame with one bit of one literal byte flipped is rejected, also
\* when the flip makes the literal byte 0x00.
C7_FlipRejected ==
    (lastOp = "decode" /\ frame # << >> /\ received \in Flipped(frame))
        => decRet = FALSE

\* A rejected frame in which the flip turned a literal byte into 0x00.
C7_Witness ==
    /\ lastOp = "decode"
    /\ frame # << >>
    /\ received \in Flipped(frame)
    /\ \E j \in LiteralPositions(frame) : received[j] = 0
    /\ decRet = FALSE

\* C8: decodeMessage returns true exactly when the unstuffed content of its
\* input is non-empty and ends in the XOR of the bytes before it.
C8_TwoFailureCauses ==
    lastOp = "decode" => decRet = PassesChecks(Blockwise(received))

\* An accepted input whose overhead byte promises more bytes than remain.
C8_Witness ==
    /\ lastOp = "decode"
    /\ received # << >>
    /\ received[1] > Len(received)
    /\ decRet = TRUE

\* C9: the empty payload encodes to the frame 01 01 00, and decoding that
\* frame returns true and leaves the store empty.
C9_EmptyPayload ==
    (frame # << >> /\ payload = << >>)
        => /\ frame = <<1, 1, 0>>
           /\ encRet = 3
           /\ RoundTripped => (decRet = TRUE /\ m_message = << >>)

\* The round trip of the empty payload.
C9_Witness ==
    /\ RoundTripped
    /\ payload = << >>
    /\ frame = <<1, 1, 0>>
    /\ decRet = TRUE
    /\ m_message = << >>

\* C10: decodeMessage returns false, with no output byte produced, for the
\* empty input and for every input whose first byte is 0x00.
C10_LeadingSentinelFails ==
    (lastOp = "decode" /\ (received = << >> \/ received[1] = 0))
        => (decRet = FALSE /\ unstuffed = << >>)

\* The single-byte input 00 is rejected by a parser whose store holds a message.
C10_Witness ==
    /\ lastOp = "decode"
    /\ received = <<0>>
    /\ decRet = FALSE
    /\ m_message # << >>

\* The number of blocks of a frame: its overhead bytes, found by following
\* each overhead byte to the next from the frame's first byte.
Blocks(fr) == Cardinality(OverheadPositions(fr, 1))

\* A frame's first block is full: overhead byte 0xFF and 254 literal bytes.
FirstBlockFull(fr) ==
    /\ Len(fr) >= 255
    /\ fr[1] = 255
    /\ \A j \in 2..255 : j \in LiteralPositions(fr)

\* C11 as claimed: the frame of the payload of 254 bytes 0x01 has exactly two
\* blocks before the terminating sentinel, the first with overhead byte 0xFF
\* followed by 254 literal bytes.
C11_TwoBlocks ==
    (frame # << >> /\ payload = Fill(1, 254))
        => (Blocks(frame) = 2 /\ FirstBlockFull(frame))

\* C11 as amended: that frame has exactly three blocks before the terminating
\* sentinel: the first with overhead byte 0xFF followed by the 254 payload
\* bytes, then two blocks with overhead byte 0x01 and no literal byte, the
\* checksum of the payload being 0x00.
C11_ThreeBlocks ==
    (frame # << >> /\ payload = Fill(1, 254))
        => /\ Blocks(frame) = 3
           /\ FirstBlockFull(frame)
           /\ frame = <<255>> \o Fill(1, 254) \o <<1, 1, 0>>
           /\ encRet = 258

\* The payload of 254 bytes 0x01 has been encoded.
C11_Witness ==
    /\ lastOp = "encode"
    /\ payload = Fill(1, 254)
    /\ frame[1] = 255
    /\ Blocks(frame) = 3

\* The logical message of a payload: the payload followed by its checksum.
LogicalMessage(p) == Append(p, XorOf(p))

\* The offsets at which an encodeMessage call placed overhead bytes: the
\* values its overheadByte pointer took.
OverheadOffsets(trace) == {trace[j].overheadByte : j \in 1..Len(trace)}

\* The offset of the overhead byte of the final block.
FinalOverheadOffset(trace) == trace[Len(trace)].overheadByte

\* The offset that ends the block whose overhead byte is at offset a: the
\* next overhead byte in offsets, or the terminating sentinel of fr.
BlockEnd(fr, offsets, a) ==
    LET later == {b \in offsets : b > a}
    IN  IF later = {} THEN Len(fr) - 1
        ELSE CHOOSE b \in later : \A c \in later : b <= c

\* C12: in every frame encodeMessage produces, each overhead byte is in
\* 1..255 and is 1 + the number of literal bytes up to the next overhead byte
\* or the sentinel; an overhead byte of 255 has 254 literal bytes; and every
\* block but the final one with an overhead byte below 255 was closed at a
\* 0x00 byte of the logical message.
C12_BlockStructure ==
    frame # << >>
        => LET trace   == EncodeTraces[payload]
               offsets == OverheadOffsets(trace)
               message == LogicalMessage(payload)
           IN  /\ \A a \in offsets :
                    LET literals == BlockEnd(frame, offsets, a) - a - 1
                    IN  /\ frame[a + 1] \in 1..255
                        /\ frame[a + 1] = 1 + literals
                        /\ frame[a + 1] = 255 => literals = 254
               /\ {a + 1 : a \in offsets} = OverheadPositions(frame, 1)
               /\ \A j \in 2..Len(trace) :
                    (/\ trace[j].overheadByte # trace[j - 1].overheadByte
                     /\ frame[trace[j - 1].overheadByte + 1] < 255)
                        => message[j - 1] = 0

\* A frame with a full block, a block closed by a 0x00 of the payload and a
\* final block.
C12_Witness ==
    /\ lastOp = "encode"
    /\ LET offsets == OverheadOffsets(EncodeTraces[payload])
       IN  /\ Cardinality(offsets) >= 3
           /\ \E a \in offsets : frame[a + 1] = 255
           /\ \E a \in offsets \ {FinalOverheadOffset(EncodeTraces[payload])} :
                frame[a + 1] < 255
    /\ \E j \in 1..Len(payload) : payload[j] = 0

\* C13: in any interleaving of calls, an encodeMessage call leaves the
\* validated-message store unchanged, and the frame and length it gives are
\* those a call with the same payload gives on an empty vector (the table
\* Encoded), whatever the vector held and whatever calls were made before.
C13_EncodeStateless ==
    [][lastOp' = "encode"
          => /\ m_message' = m_message
             /\ frame' = Encoded[payload'].output
             /\ encRet' = Encoded[payload'].ret]_vars

\* An encodeMessage call on a parser whose store holds another message.
C13_Witness ==
    /\ lastOp = "encode"
    /\ frame # << >>
    /\ m_message # << >>
    /\ m_message # payload

\* C15: every byte encodeMessage writes lies inside the vector pre-sized to
\* messageSize + floor(messageSize / 254) + 2 bytes: no store falls outside
\* it, both pointers stay within it while they are written through, and the
\* number of bytes written, to which the vector is finally resized, does not
\* exceed that size.
C15_EncoderInBounds ==
    frame # << >>
        => LET trace == EncodeTraces[payload]
           IN  /\ presized = PresizedLen(payload)
               /\ ~overrun
               /\ encRet <= presized
               /\ Len(frame) <= presized
               /\ \A j \in 1..Len(trace) :
                    /\ trace[j].overheadByte < presized
                    /\ trace[j].overheadByte < trace[j].encodedMessage
                    /\ trace[j].encodedMessage < presized

\* The longest payload fills the pre-sized vector to its last byte.
C15_Witness ==
    /\ lastOp = "encode"
    /\ Len(payload) = MAX_FRAME_SIZE - 1
    /\ ~overrun
    /\ encRet = presized
    /\ frame[presized] = 0

\* An iteration of decodeMessage's loop, the one that leaves trace[j], read
\* a non-zero overhead byte.
ReadOverhead(trace, j) == trace[j - 1].blockSize = 0 /\ ~trace[j].endOfFrame

\* The same iteration appended a 0x00 to the output.
InsertedNull(trace, j) ==
    trace[j].size = trace[j - 1].size + 1 /\ trace[j].back = <<0>>

\* The blocks of an input that another block follows and whose overhead byte
\* is below 255, by the index of their overhead byte.
PartialBlocks(in) ==
    LET heads == OverheadPositions(in, 1)
    IN  {p \in heads : in[p] < 255 /\ p + in[p] \in heads}

\* C14: when decodeMessage reads a non-zero overhead byte it appends one 0x00
\* to the output if and only if a previous block exists and its overhead byte
\* was below 255, and otherwise appends nothing; so the 0x00 bytes inserted
\* are as many as the blocks below 255 that another block follows: none
\* before the first block, after a 0xFF block or after the final block.
C14_ReinsertionRule ==
    lastOp = "decode"
        => LET trace   == DecodeTraces[received]
               partial == PartialBlocks(received)
               reads   == {j \in 2..Len(trace) : ReadOverhead(trace, j)}
           IN  /\ \A j \in reads :
                    /\ InsertedNull(trace, j)
                           <=> \E p \in partial : p + received[p] = trace[j].encodedMessage
                    /\ ~InsertedNull(trace, j) => trace[j].size = trace[j - 1].size
               /\ Cardinality({j \in reads : InsertedNull(trace, j)}) = Cardinality(partial)
               /\ Len(unstuffed) = trace[Len(trace)].size

\* A decoded input with a 0xFF block and a block below 255, each followed by
\* another block.
C14_Witness ==
    /\ lastOp = "decode"
    /\ decRet = TRUE
    /\ PartialBlocks(received) # {}
    /\ \E p \in OverheadPositions(received, 1) :
            received[p] = 255 /\ p + 255 \in OverheadPositions(received, 1)

\* The index of the first 0x00 of an input that stands where an overhead byte
\* is expected, following each overhead byte to the next from at; 0 if the
\* input runs out first.
RECURSIVE SentinelAt(_, _)
SentinelAt(in, at) ==
    IF at > Len(in) THEN 0
    ELSE IF in[at] = 0 THEN at
    ELSE SentinelAt(in, at + in[at])

\* C16: decodeMessage's scan of any input ends: every iteration consumes
\* exactly one input byte, there are at most len(input) iterations, and when
\* they are done the scan has stopped at the first 0x00 read as an overhead
\* byte or, if there is none, has consumed the whole input.
C16_ScanTerminates ==
    lastOp = "decode"
        => LET trace    == DecodeTraces[received]
               last     == trace[Len(trace)]
               sentinel == SentinelAt(received, 1)
           IN  /\ \A j \in 2..Len(trace) :
                    /\ trace[j].encodedMessage = trace[j - 1].encodedMessage + 1
                    /\ ~trace[j - 1].endOfFrame
               /\ Len(trace) - 1 <= Len(received)
               /\ last.endOfFrame \/ ~(last.encodedMessage < Len(received))
               /\ frameEnded = last.endOfFrame
               /\ IF sentinel # 0
                  THEN last.endOfFrame /\ last.encodedMessage = sentinel
                  ELSE ~last.endOfFrame /\ last.encodedMessage = Len(received)

\* A long input whose scan stopped at a 0x00 overhead byte before its end.
C16_Witness ==
    /\ lastOp = "decode"
    /\ frameEnded
    /\ Len(received) > MAX_BLOCK_SIZE
    /\ Len(DecodeTraces[received]) - 1 < Len(received)

\* An input up to and including its first 0x00 in overhead position; the
\* whole input if it has none.
UpToSentinel(in) ==
    IF SentinelAt(in, 1) # 0 THEN SubSeq(in, 1, SentinelAt(in, 1)) ELSE in

\* An iteration of decodeMessage's loop, the one that leaves trace[j], found
\* bytes left in the current block.
CopiedLiteral(trace, j) == trace[j - 1].blockSize > 0

\* What C17 says of one scan: an iteration inside a block appends the byte it
\* consumes, 0x00 or not, and does not end the scan; the scan ends only in an
\* iteration that reads 0x00 as an overhead byte.
LiteralsCopied(in, trace) ==
    \A j \in 2..Len(trace) :
        /\ CopiedLiteral(trace, j)
               => /\ trace[j].size = trace[j - 1].size + 1
                  /\ trace[j].back = <<in[trace[j].encodedMessage]>>
                  /\ ~trace[j].endOfFrame
        /\ trace[j].endOfFrame
               => (~CopiedLiteral(trace, j) /\ in[trace[j].encodedMessage] = 0)

\* C17: decodeMessage ends the frame only at a 0x00 read in overhead-byte
\* position; a 0x00 inside a block is copied like any other byte; and the
\* bytes after the first overhead-position 0x00 are ignored: the call gives
\* the output, the result and the store it gives, from the same store, for
\* the input cut off after that 0x00.
C17_EndsOnlyAtOverheadNull ==
    /\ [](lastOp = "decode" => LiteralsCopied(received, DecodeTraces[received]))
    /\ [][lastOp' = "decode"
             => /\ unstuffed' = Scanned[UpToSentinel(received')].output
                /\ decRet' = Commit(Checked[UpToSentinel(received')], m_message).ret
                /\ m_message' = Commit(Checked[UpToSentinel(received')], m_message).m_message]_vars

\* An accepted input with a 0x00 inside a block and a byte after the 0x00
\* that ends its frame.
C17_Witness ==
    /\ lastOp = "decode"
    /\ decRet = TRUE
    /\ SentinelAt(received, 1) # 0
    /\ SentinelAt(received, 1) < Len(received)
    /\ \E j \in 1..(SentinelAt(received, 1) - 1) :
            received[j] = 0 /\ j \notin OverheadPositions(received, 1)

\* C18: the output decodeMessage builds is never longer than its input: each
\* iteration, which consumes one input byte, appends at most one output
\* byte, and the first appends none, so the output stays at least one byte
\* shorter than the consumed input, within the capacity reserved up front.
C18_OutputShorterThanInput ==
    lastOp = "decode"
        => LET trace == DecodeTraces[received]
           IN  /\ \A j \in 2..Len(trace) :
                    /\ trace[j].size - trace[j - 1].size \in {0, 1}
                    /\ trace[j].size <= trace[j].encodedMessage - 1
                    /\ trace[j].size <= Len(received)
               /\ Len(trace) >= 2 => trace[2].size = 0
               /\ Len(unstuffed) = trace[Len(trace)].size
               /\ Len(unstuffed) <= Len(received)
               /\ received # << >> => Len(unstuffed) <= Len(received) - 1

\* An input of three bytes or more whose output is one byte shorter.
C18_Witness ==
    /\ lastOp = "decode"
    /\ Len(received) >= 3
    /\ Len(unstuffed) = Len(received) - 1

\* What C19 says of one decodeMessage scan: an iteration that does not break
\* leaves blockSize one below the value it found or read, which is at least
\* 1, and an iteration that breaks leaves it 0; it is never 255.
BlockSizeNeverWraps(in, trace) ==
    \A j \in 2..Len(trace) :
        /\ trace[j].blockSize \in 0..(MAX_BLOCK_SIZE - 1)
        /\ IF trace[j].endOfFrame THEN trace[j].blockSize = 0
           ELSE LET before == IF CopiedLiteral(trace, j) THEN trace[j - 1].blockSize
                              ELSE in[trace[j].encodedMessage]
                IN  before >= 1 /\ trace[j].blockSize = before - 1

\* What C19 says of one encodeMessage call: overheadCount is within 1..255
\* whenever the loop tests it, and an iteration leaves it 1 or one above the
\* value it found.
OverheadCountNeverWraps(trace) ==
    /\ \A j \in 1..Len(trace) : trace[j].overheadCount \in 1..MAX_BLOCK_SIZE
    /\ \A j \in 2..Len(trace) :
            trace[j].overheadCount \in {1, trace[j - 1].overheadCount + 1}

\* C19: the 8-bit counters never wrap: decodeMessage never decrements
\* blockSize from 0, and encodeMessage keeps overheadCount within 1..255 and
\* never increments it past 255.
C19_CountersNeverWrap ==
    /\ lastOp = "decode" => BlockSizeNeverWraps(received, DecodeTraces[received])
    /\ frame # << >> => OverheadCountNeverWraps(EncodeTraces[payload])

\* The longest payload encoded and its frame, which starts with a full
\* block, decoded.
C19_Witness ==
    /\ RoundTripped
    /\ Len(payload) = MAX_FRAME_SIZE - 1
    /\ frame[1] = MAX_BLOCK_SIZE
    /\ \E j \in 1..Len(EncodeTraces[payload]) :
            EncodeTraces[payload][j].overheadCount = MAX_BLOCK_SIZE - 1
    /\ \E j \in 1..Len(DecodeTraces[received]) :
            DecodeTraces[received][j].blockSize = MAX_BLOCK_SIZE - 1

====
